---- MODULE Spec2Model ----
(***************************************************************************)
(* Model of the hours-logging timer of loghours: the LogState accumulator  *)
(* (src/loghours/src/state.rs) and the interactive session that drives it  *)
(* (log_hours in src/loghours/src/main.rs).                                *)
(*                                                                         *)
(* Time.  The clock `now` counts clock units; there are UnitsPerSec units  *)
(* in a second.  Instant::elapsed() is `now - start_time`.  The f64 field  *)
(* `hours` is kept as the exact number of clock units banked, i.e. the     *)
(* value in hours is hours / (3600 * UnitsPerSec); floating-point rounding *)
(* of that quotient is not modelled.  The u64 field `minutes` is kept as   *)
(* the code computes it: whole seconds (as_secs) divided by 60, truncated. *)
(***************************************************************************)
EXTENDS Integers, Sequences, FiniteSets, TLC

\* ------------------------------------------------------------- bounds
\* Clock units per second (resolution of the modelled clock).
UnitsPerSec == 2
\* Number of times the clock may advance while the LogState is driven directly.
MaxAdvances == 3
\* Number of times the clock may advance in one session.
MaxSessAdvances == 2
\* Number of LogState method calls in one behaviour.
MaxCalls == 4
\* Amounts by which the clock advances in one step, in clock units:
\* 0.5 s and 45 s at two units per second.
Steps == {1, 90}

\* Number of keys the terminal delivers in one session.
MaxKeys == 2
\* Number of interval ticks served in one session.
MaxTicks == 1
\* Capacity of the command channel in the model (mpsc::channel(100) in the code).
ChanCap == 1
\* The (1-based) cursor rows the terminal may report at session start.
Rows == {1, 2}

\* ---------------------------------------------------- program constants
\* as_secs() / 60 in get_minutes_since_start_time
SecsPerMin == 60
\* as_secs_f64() / 3600.0 in get_hours_since_start_time
SecsPerHour == 3600
\* `hours >= 0.01` in log_hours, in hundredths of an hour
LogThreshold == 1

VARIABLES
    st,         \* the LogState: paused, running, start_time, hours, minutes
    now,        \* the clock (tokio::time::Instant::now())
    nadv,       \* how many times the clock has advanced
    ncalls,     \* how many LogState methods have been called
    last,       \* the most recent call on the LogState (see Call)
    last2,      \* the call before that
    phase,      \* history: "Idle", "Started" (start() called) or "Stopped" (quit() called)
    quitSt,     \* history: the LogState right after the first quit()
    obsActive,  \* history: clock units spent Active since start() left Idle
    obsPR       \* history: only pause()/resume() and reads were called since then

apiVars == <<st, now, nadv, ncalls, last, last2, phase, quitSt, obsActive, obsPR>>

\* The interactive session (log_hours).
VARIABLES
    pc,         \* where log_hours is: "off", "entry", "loop", "summary", "done", "error", "panic"
    opts,       \* the arguments: the command, whether an output file and a job name were given
    term,       \* the terminal: raw mode on, cursor visible
    start_line, \* the u16 line the status is drawn on
    chan,       \* the commands in the mpsc channel
    inpc,       \* the key handler task: "off", "reading", "blocked", "ended"
    pending,    \* the command the key handler is blocked sending
    pressed,    \* history: the commands of the recognized keys, in the order pressed
    dispatched, \* history: the commands dispatched to the LogState, in order
    nkeys,      \* how many keys were delivered
    nticks,     \* how many ticks were served
    counter,    \* the animation counter
    screen,     \* the status line last drawn
    ndraws,     \* history: how many times the status line was drawn
    enq,        \* history: the commands the key handler has put on the channel
    dtimes,     \* history: the clock at each dispatch, one entry per entry of dispatched
    created,    \* history: the clock when the session made its LogState
    err,        \* the kind of error or panic the session ended with, "none" so far
    final,      \* history: the total elapsed when the code after the loop ran, -1 before
    nsink,      \* history: how many times a persistence sink was called
    report,     \* the final summary line: "none", "logged", "nohours"
    sink        \* the persistence sink called: "none", "file", "db", with the hours handed over

sessVars == <<pc, opts, term, start_line, chan, inpc, pending, pressed, dispatched,
              nkeys, nticks, counter, screen, ndraws, report, sink,
              enq, dtimes, created, err, final, nsink>>

\* The other programs of the repository.  Each is a record of its state, and
\* NotRunning while the program modelled is another one.
VARIABLES
    db,         \* the entry database (db/entries.rs) and the connection import_hours shares
    cnt,        \* the async scratch program (tokiotests)
    syn         \* the drive syncer (syncdrives)

extVars == <<db, cnt, syn>>

vars == <<apiVars, sessVars, extVars>>

NotRunning == [pc |-> "off"]

ExtIdle ==
    /\ db = NotRunning
    /\ cnt = NotRunning
    /\ syn = NotRunning

\* ------------------------------------------------------------ LogState

\* LogState::new() at time t
new(t) ==
    [paused |-> FALSE, running |-> FALSE, start_time |-> t, hours |-> 0, minutes |-> 0]

\* self.start_time.elapsed()
elapsed(s, t) == t - s.start_time

get_hours_since_start_time(s, t) ==
    IF s.running THEN elapsed(s, t) ELSE 0

get_minutes_since_start_time(s, t) ==
    IF s.running THEN (elapsed(s, t) \div UnitsPerSec) \div SecsPerMin ELSE 0

\* update_time with `=` written for `+=`
update_time_assign(s, t) ==
    [s EXCEPT !.hours = get_hours_since_start_time(s, t),
              !.minutes = get_minutes_since_start_time(s, t)]

update_time(s, t) ==
    [s EXCEPT !.hours = @ + get_hours_since_start_time(s, t),
              !.minutes = @ + get_minutes_since_start_time(s, t)]

reset_start_time(s, t) == [s EXCEPT !.start_time = t]

\* toggle_pause that forgets reset_start_time() when un-pausing
toggle_pause_no_reset(s, t) ==
    IF s.running
    THEN LET p == [s EXCEPT !.paused = ~s.paused]
         IN  IF p.paused THEN update_time(p, t) ELSE p
    ELSE s

toggle_pause(s, t) ==
    IF s.running
    THEN LET p == [s EXCEPT !.paused = ~s.paused]
         IN  IF p.paused THEN update_time(p, t) ELSE reset_start_time(p, t)
    ELSE s

\* pause without the `!self.paused` guard
pause_unguarded(s, t) ==
    IF s.running
    THEN [update_time(s, t) EXCEPT !.paused = TRUE]
    ELSE s

pause(s, t) ==
    IF s.running /\ ~s.paused
    THEN [update_time(s, t) EXCEPT !.paused = TRUE]
    ELSE s

\* resume without the `self.paused` guard
resume_unguarded(s, t) ==
    [reset_start_time(s, t) EXCEPT !.paused = FALSE]

resume(s, t) ==
    IF s.paused
    THEN [reset_start_time(s, t) EXCEPT !.paused = FALSE]
    ELSE s

start(s, t) == [s EXCEPT !.running = TRUE]

quit(s, t) ==
    [(IF ~s.paused THEN update_time(s, t) ELSE s) EXCEPT !.running = FALSE]

is_paused(s) == s.paused

is_running(s) == s.running

\* The getters take &mut self: each yields the value returned (val) and the
\* LogState after the call (self).
\* get_total_hours that banks the interval it reports (a mutating getter)
get_total_hours_banking(s, t) ==
    [val  |-> IF ~s.paused THEN s.hours + get_hours_since_start_time(s, t) ELSE s.hours,
     self |-> IF ~s.paused THEN update_time(s, t) ELSE s]

\* (the total without the interval in progress)
get_total_hours_banked_only(s, t) ==
    [val  |-> s.hours,
     self |-> s]

get_total_hours(s, t) ==
    [val  |-> IF ~s.paused THEN s.hours + get_hours_since_start_time(s, t) ELSE s.hours,
     self |-> s]

\* get_total_minutes that banks the interval it reports (a mutating getter)
get_total_minutes_banking(s, t) ==
    [val  |-> IF ~s.paused THEN s.minutes + get_minutes_since_start_time(s, t)
                           ELSE s.minutes,
     self |-> IF ~s.paused THEN update_time(s, t) ELSE s]

get_total_minutes(s, t) ==
    [val  |-> IF ~s.paused THEN s.minutes + get_minutes_since_start_time(s, t)
                           ELSE s.minutes,
     self |-> s]

\* The four logical states of the accumulator, read off its flags.
Active(s) == s.running /\ ~s.paused
Paused(s) == s.running /\ s.paused

Mutators == {"start", "pause", "resume", "toggle_pause", "quit"}
Getters == {"get_total_hours", "get_total_minutes"}

\* The LogState after calling method op at time t.
Apply(op, s, t) ==
    CASE op = "start" -> start(s, t)
      [] op = "pause" -> pause(s, t)
      [] op = "resume" -> resume(s, t)
      [] op = "toggle_pause" -> toggle_pause(s, t)
      [] op = "quit" -> quit(s, t)
      [] op = "get_total_hours" -> get_total_hours(s, t).self
      [] op = "get_total_minutes" -> get_total_minutes(s, t).self

\* The value the call returns (0 for the methods that return nothing).
Result(op, s, t) ==
    CASE op = "get_total_hours" -> get_total_hours(s, t).val
      [] op = "get_total_minutes" -> get_total_minutes(s, t).val
      [] OTHER -> 0

\* The record of a call: the method, the LogState before it, the time of the
\* call, the value returned, and the logical state before it.
NoCall == [op |-> "none", pre |-> new(0), at |-> 0, ret |-> 0, phase |-> "Idle"]

\* Which calls have been made: "Idle" until start() or quit() is first called,
\* "Stopped" once quit() has been called, "Started" otherwise.
NextPhase(op, ph) ==
    IF ph = "Stopped" \/ op = "quit" THEN "Stopped"
    ELSE IF op = "start" THEN "Started"
    ELSE ph

\* One call of a LogState method at the current time, with the history the
\* properties read.
Call(op) ==
    LET s2 == Apply(op, st, now)
        leavesIdle == op = "start" /\ phase = "Idle"
    IN  /\ st' = s2
        /\ last' = [op |-> op, pre |-> st, at |-> now,
                    ret |-> Result(op, st, now), phase |-> phase]
        /\ last2' = last
        /\ phase' = NextPhase(op, phase)
        /\ quitSt' = IF op = "quit" /\ phase # "Stopped" THEN s2 ELSE quitSt
        /\ obsActive' = IF leavesIdle THEN 0 ELSE obsActive
        /\ obsPR' = IF leavesIdle THEN TRUE
                    ELSE obsPR /\ op \in {"pause", "resume"} \cup Getters

\* Time passes, at most max times.
Advance(max) ==
    /\ nadv < max
    /\ \E d \in Steps :
        /\ now' = now + d
        /\ obsActive' = IF Active(st) THEN obsActive + d ELSE obsActive
    /\ nadv' = nadv + 1
    /\ UNCHANGED <<st, ncalls, last, last2, phase, quitSt, obsPR>>

\* Any method of the LogState is called.
CallStep ==
    /\ UNCHANGED extVars
    /\ ncalls < MaxCalls
    /\ \E op \in Mutators \cup Getters : Call(op)
    /\ ncalls' = ncalls + 1
    /\ UNCHANGED <<now, nadv>>
    /\ UNCHANGED sessVars

\* Time passes; nothing else changes.
TimePasses == Advance(MaxAdvances) /\ UNCHANGED sessVars /\ UNCHANGED extVars

InitApi ==
    /\ now = 0
    /\ nadv = 0
    /\ ncalls = 0
    /\ st = new(0)
    /\ last = NoCall
    /\ last2 = NoCall
    /\ phase = "Idle"
    /\ quitSt = new(0)
    /\ obsActive = 0
    /\ obsPR = FALSE

NoScreen == [kind |-> "none", val |-> 0, stars |-> 0]
NoSink == [to |-> "none", hours |-> 0]

\* No session: the LogState is driven directly through its methods.
\* No session has been launched.
NoSession ==
    /\ pc = "off"
    /\ opts = [cmd |-> "log", file |-> FALSE, job |-> TRUE]
    /\ term = [raw |-> FALSE, cursor |-> TRUE]
    /\ start_line = 0
    /\ chan = <<>>
    /\ inpc = "off"
    /\ pending = "None"
    /\ pressed = <<>>
    /\ dispatched = <<>>
    /\ nkeys = 0
    /\ nticks = 0
    /\ counter = 0
    /\ screen = NoScreen
    /\ ndraws = 0
    /\ report = "none"
    /\ sink = NoSink
    /\ enq = <<>>
    /\ dtimes = <<>>
    /\ created = 0
    /\ err = "none"
    /\ final = -1
    /\ nsink = 0

Init ==
    /\ InitApi
    /\ ExtIdle
    /\ NoSession

Next == CallStep \/ TimePasses

Spec == Init /\ [][Next]_vars


\* ------------------------------------------------------------ the session

\* The keys the terminal can deliver; "x" stands for every key the handler ignores.
Keys == {"s", "p", "r", " ", "q", "^C", "x"}

\* (p and r exchanged, and every other key taken for Quit)
KeyCommand_mixed(k) ==
    CASE k = "s" -> "Start"
      [] k = "p" -> "Resume"
      [] k = "r" -> "Pause"
      [] k = " " -> "TogglePause"
      [] OTHER -> "Quit"

\* The command the key handler maps a key to; "None" for a key it ignores.
KeyCommand(k) ==
    CASE k = "s" -> "Start"
      [] k = "p" -> "Pause"
      [] k = "r" -> "Resume"
      [] k = " " -> "TogglePause"
      [] k \in {"q", "^C"} -> "Quit"
      [] OTHER -> "None"

\* The LogState method the session loop calls for a command.
CommandMethod(c) ==
    CASE c = "Start" -> "start"
      [] c = "Pause" -> "pause"
      [] c = "Resume" -> "resume"
      [] c = "TogglePause" -> "toggle_pause"
      [] c = "Quit" -> "quit"

\* (the session is entered whatever the arguments)
MainEntersSession_always(o) == TRUE

\* main, Commands::Log: the session is entered unless neither an output file
\* nor a job name was given.
MainEntersSession(o) == ~(~o.file /\ ~o.job)

\* get_cursor_start_line for a terminal reporting the (1-based) cursor row.
get_cursor_start_line(row) == row - 1

\* Dropping the TerminalRestorer over a terminal in state tm: the cursor is
\* shown, and the RawTerminal it wraps leaves raw mode.  The write of the drop
\* itself is taken to succeed.
\* (a bare RawTerminal: raw mode is left, the cursor stays as it was)
RawModeLeft(tm) == [tm EXCEPT !.raw = FALSE]

Restored(tm) == [raw |-> FALSE, cursor |-> TRUE]

\* util::hide_cursor and util::show_cursor.
hide_cursor(tm) == [tm EXCEPT !.cursor = FALSE]
show_cursor(tm) == [tm EXCEPT !.cursor = TRUE]

\* The error log_hours returns for a step that failed: a terminal write or
\* flush that fails gives a terminal error whichever write it was; the panic,
\* and the errors of raw mode, of the cursor query and of the sink, are told
\* apart.
ErrorOf(io) ==
    CASE io \in {"write_failed", "clear_failed", "clear2_failed",
                 "show_failed", "report_failed"} -> "terminal"
      [] io = "sink_failed" -> "sink"
      [] OTHER -> io

\* The session has returned to its caller, or has panicked.
Returned == pc \in {"done", "error", "panic"}

\* The receiver lives until log_hours returns.
RxAlive == pc \in {"loop", "summary"}

\* A value in hours as `{:.2}` prints it, in hundredths of an hour.
Fmt2(h) ==
    LET unitsPerHour == SecsPerHour * UnitsPerSec
    IN  (200 * h + unitsPerHour) \div (2 * unitsPerHour)

\* `hours >= 0.01`
ReachesThreshold(h) == 100 * h >= LogThreshold * SecsPerHour * UnitsPerSec

\* The command lines modelled: `log` with or without an output file and a job
\* name, `add` with or without a job name.
Arguments ==
    [cmd : {"log"}, file : BOOLEAN, job : BOOLEAN]
        \cup [cmd : {"add"}, file : {FALSE}, job : BOOLEAN]

\* main, Commands::Log: the session is entered, or main bails.
MainLog ==
    /\ opts.cmd = "log"
    /\ pc' = IF MainEntersSession(opts) THEN "entry" ELSE "error"
    /\ err' = IF MainEntersSession(opts) THEN err ELSE "job_required"
    /\ UNCHANGED <<sink, nsink>>

\* main, Commands::Add: with a job name the date is parsed and the entry handed
\* to the database, either of which may fail; without one main bails.
MainAdd ==
    /\ opts.cmd = "add"
    /\ IF opts.job
       THEN \E out \in {"ok", "date_failed", "sink_failed"}, h \in Steps :
               /\ pc' = IF out = "ok" THEN "done" ELSE "error"
               /\ err' = IF out = "ok" THEN err ELSE ErrorOf(out)
               /\ IF out = "date_failed"
                  THEN UNCHANGED <<sink, nsink>>
                  ELSE sink' = [to |-> "db", hours |-> h] /\ nsink' = nsink + 1
       ELSE /\ pc' = "error"
            /\ err' = "job_required"
            /\ UNCHANGED <<sink, nsink>>

\* main.
Main ==
    /\ UNCHANGED extVars
    /\ pc = "main"
    /\ MainLog \/ MainAdd
    /\ UNCHANGED <<opts, term, start_line, chan, inpc, pending, pressed, dispatched,
                   nkeys, nticks, counter, screen, ndraws, report>>
    /\ UNCHANGED <<enq, dtimes, created, final>>
    /\ UNCHANGED apiVars

\* (the key handler spawned before the terminal is set up)
AcquireOutcome_spawn_first(out, row, tm) ==
    IF out = "ok"
    THEN [pc |-> "loop", term |-> hide_cursor([tm EXCEPT !.raw = TRUE]),
          start_line |-> get_cursor_start_line(row), inpc |-> "reading",
          err |-> "none"]
    ELSE [pc |-> "error",
          term |-> IF out = "raw_failed" THEN tm
                   ELSE Restored([tm EXCEPT !.raw = TRUE]),
          start_line |-> 0, inpc |-> "reading", err |-> ErrorOf(out)]

\* log_hours up to the select loop, on a terminal in state tm reporting cursor
\* row `row`: raw mode, the guard, the cursor query, the help line, the hidden
\* cursor, and then the channel and the key handler task.  Each `?` before the
\* spawn returns its error; the guard, once made, is dropped on the way out.
AcquireOutcome(out, row, tm) ==
    IF out = "ok"
    THEN [pc |-> "loop", term |-> hide_cursor([tm EXCEPT !.raw = TRUE]),
          start_line |-> get_cursor_start_line(row), inpc |-> "reading",
          err |-> "none"]
    ELSE [pc |-> "error",
          term |-> IF out = "raw_failed" THEN tm
                   ELSE Restored([tm EXCEPT !.raw = TRUE]),
          start_line |-> 0, inpc |-> "off", err |-> ErrorOf(out)]

\* log_hours up to the select loop; the LogState is made last.
Acquire ==
    /\ UNCHANGED extVars
    /\ pc = "entry"
    /\ \E out \in {"ok", "raw_failed", "cursor_failed", "write_failed"}, row \in Rows :
        LET a == AcquireOutcome(out, row, term)
        IN  /\ pc' = a.pc
            /\ term' = a.term
            /\ start_line' = a.start_line
            /\ inpc' = a.inpc
            /\ err' = a.err
            /\ IF out = "ok"
               THEN st' = new(now) /\ created' = now
               ELSE UNCHANGED <<st, created>>
    /\ UNCHANGED <<opts, chan, pending, pressed, dispatched,
                   nkeys, nticks, counter, screen, ndraws, report, sink>>
    /\ UNCHANGED <<enq, dtimes, final, nsink>>
    /\ UNCHANGED <<now, nadv, ncalls, last, last2, phase, quitSt, obsActive, obsPR>>

\* (the key handler goes on reading after any command)
AfterSend_keeps_reading(c) == "reading"

\* The key handler after a send that succeeded: `matches!(cmd, Command::Quit)`
\* breaks out of the key loop.
AfterSend(c) == IF c = "Quit" THEN "ended" ELSE "reading"

\* (try_send: a command that finds the channel full is dropped)
Send_dropping(c) ==
    IF ~RxAlive
    THEN inpc' = "ended" /\ pending' = "None" /\ UNCHANGED <<chan, enq>>
    ELSE IF Len(chan) < ChanCap
    THEN /\ chan' = Append(chan, c)
         /\ enq' = Append(enq, c)
         /\ inpc' = AfterSend(c)
         /\ pending' = "None"
    ELSE inpc' = "reading" /\ pending' = "None" /\ UNCHANGED <<chan, enq>>

\* tx.blocking_send(c) and the test that follows it in the key handler: the
\* send fails when the receiver is gone, which ends the key loop; it enqueues
\* when the channel has room; it blocks when the channel is full.
Send(c) ==
    IF ~RxAlive
    THEN inpc' = "ended" /\ pending' = "None" /\ UNCHANGED <<chan, enq>>
    ELSE IF Len(chan) < ChanCap
    THEN /\ chan' = Append(chan, c)
         /\ enq' = Append(enq, c)
         /\ inpc' = AfterSend(c)
         /\ pending' = "None"
    ELSE inpc' = "blocked" /\ pending' = c /\ UNCHANGED <<chan, enq>>

\* One turn of the key loop, for the key k: the key is mapped, and the command
\* it maps to, if any, is sent.
ReadKeyOf(k) ==
    /\ UNCHANGED extVars
    /\ inpc = "reading"
    /\ nkeys < MaxKeys
    /\ nkeys' = nkeys + 1
    /\ LET c == KeyCommand(k)
       IN  IF c = "None"
           THEN UNCHANGED <<chan, enq, inpc, pending, pressed>>
           ELSE pressed' = Append(pressed, c) /\ Send(c)
    /\ UNCHANGED <<pc, opts, term, start_line, dispatched,
                   nticks, counter, screen, ndraws, report, sink>>
    /\ UNCHANGED <<dtimes, created, err, final, nsink>>
    /\ UNCHANGED apiVars

\* The key handler reads a key.
ReadKey == \E k \in Keys : ReadKeyOf(k)

\* The key source ends: keys.next() is None or an error.
KeysEnd ==
    /\ UNCHANGED extVars
    /\ inpc = "reading"
    /\ inpc' = "ended"
    /\ UNCHANGED <<pc, opts, term, start_line, chan, pending, pressed, dispatched,
                   nkeys, nticks, counter, screen, ndraws, report, sink>>
    /\ UNCHANGED <<enq, dtimes, created, err, final, nsink>>
    /\ UNCHANGED apiVars

\* A blocked blocking_send completes: the channel has room, or the receiver is gone.
SendResumes ==
    /\ UNCHANGED extVars
    /\ inpc = "blocked"
    /\ Len(chan) < ChanCap \/ ~RxAlive
    /\ Send(pending)
    /\ UNCHANGED <<pc, opts, term, start_line, pressed, dispatched,
                   nkeys, nticks, counter, screen, ndraws, report, sink>>
    /\ UNCHANGED <<dtimes, created, err, final, nsink>>
    /\ UNCHANGED apiVars

\* (a receive that leaves the command on the channel)
Received_peek(q) == q

\* What rx.recv() leaves on the channel q: all but the oldest command.
Received(q) == Tail(q)

\* (Quit without the break)
AfterDispatch_no_break(c) == "loop"

\* The session after dispatching c: Quit breaks out of the loop.
AfterDispatch(c) == IF c = "Quit" THEN "summary" ELSE "loop"

\* select!: rx.recv() yields a command, which is dispatched to the LogState.
RecvCommand ==
    /\ UNCHANGED extVars
    /\ pc = "loop"
    /\ chan # <<>>
    /\ LET c == Head(chan)
       IN  /\ chan' = Received(chan)
           /\ dispatched' = Append(dispatched, c)
           /\ dtimes' = Append(dtimes, now)
           /\ Call(CommandMethod(c))
           /\ pc' = AfterDispatch(c)
    /\ UNCHANGED <<opts, term, start_line, inpc, pending, pressed,
                   nkeys, nticks, counter, screen, ndraws, report, sink>>
    /\ UNCHANGED <<enq, created, err, final, nsink>>
    /\ UNCHANGED <<now, nadv, ncalls>>

\* select!: rx.recv() yields None, the channel being empty and the sender dropped.
RecvNone ==
    /\ UNCHANGED extVars
    /\ pc = "loop"
    /\ chan = <<>>
    /\ inpc = "ended"
    /\ pc' = "summary"
    /\ UNCHANGED <<opts, term, start_line, chan, inpc, pending, pressed, dispatched,
                   nkeys, nticks, counter, screen, ndraws, report, sink>>
    /\ UNCHANGED <<enq, dtimes, created, err, final, nsink>>
    /\ UNCHANGED apiVars

\* (log_hours awaits the key handler task before it returns)
Unjoined_awaited == inpc \notin {"reading", "blocked"}

\* What log_hours needs of the key handler task in order to return: nothing.
\* The JoinHandle that spawn_blocking returns is discarded, so the task is
\* detached and no path out of log_hours awaits it.
Unjoined == TRUE

\* select!: interval.tick().  A failed terminal write returns the error.
Tick ==
    /\ UNCHANGED extVars
    /\ pc = "loop"
    /\ nticks < MaxTicks
    /\ nticks' = nticks + 1
    /\ IF is_running(st)
       THEN \E io \in {"ok", "clear_failed", "write_failed", "clear2_failed"} :
              IF io = "clear_failed"
              THEN /\ Unjoined
                   /\ pc' = "error" /\ term' = Restored(term) /\ err' = ErrorOf(io)
                   /\ UNCHANGED <<st, counter, screen, ndraws>>
              ELSE IF is_paused(st)
              THEN LET g == get_total_hours(st, now)
                   IN  /\ st' = g.self
                       /\ counter' = counter
                       /\ IF io = "write_failed"
                          THEN /\ Unjoined
                               /\ pc' = "error" /\ term' = Restored(term) /\ err' = ErrorOf(io)
                               /\ UNCHANGED <<screen, ndraws>>
                          ELSE /\ screen' = [kind |-> "paused", val |-> Fmt2(g.val),
                                             stars |-> 0]
                               /\ ndraws' = ndraws + 1
                               /\ UNCHANGED <<pc, term, err>>
              ELSE LET g == get_total_minutes(st, now)
                       n == counter + 1
                   IN  /\ st' = g.self
                       /\ counter' = n
                       /\ IF io = "write_failed"
                          THEN /\ Unjoined
                               /\ pc' = "error" /\ term' = Restored(term) /\ err' = ErrorOf(io)
                               /\ UNCHANGED <<screen, ndraws>>
                          ELSE /\ screen' = [kind |-> "running", val |-> g.val,
                                             stars |-> (n % 20) + 1]
                               /\ ndraws' = ndraws + 1
                               /\ IF io = "clear2_failed"
                                  THEN /\ Unjoined
                                       /\ pc' = "error" /\ term' = Restored(term)
                                       /\ err' = ErrorOf(io)
                                  ELSE UNCHANGED <<pc, term, err>>
       ELSE UNCHANGED <<st, pc, term, err, counter, screen, ndraws>>
    /\ UNCHANGED <<opts, start_line, chan, inpc, pending, pressed, dispatched,
                   nkeys, report, sink>>
    /\ UNCHANGED <<enq, dtimes, created, final, nsink>>
    /\ UNCHANGED <<now, nadv, ncalls, last, last2, phase, quitSt, obsActive, obsPR>>

\* The sink log_hours hands the hours to: the file when one was given, else the
\* database when a job name was given.
SinkFor(o) == IF o.file THEN "file" ELSE IF o.job THEN "db" ELSE "none"

\* log_hours after the loop: the line above the status line is cleared, the
\* cursor shown, the total read and reported, and handed to the sink when it
\* reaches the threshold.  `start_line - 1` overflows when start_line is 0: a
\* panic in a build that checks overflow, a wrapped line number in one that
\* does not.  However log_hours is left, the guard is dropped.
Summary ==
    /\ UNCHANGED extVars
    /\ pc = "summary"
    /\ Unjoined
    /\ LET g == get_total_hours(st, now)
           enough == ReachesThreshold(g.val)
           to == SinkFor(opts)
       IN  /\ final' = g.val
           /\ \E io \in {"ok", "overflow_panic", "clear_failed", "show_failed",
                         "report_failed", "sink_failed", "clear2_failed"} :
                  IF io = "overflow_panic" /\ start_line = 0
                  THEN /\ pc' = "panic" /\ err' = ErrorOf(io)
                       /\ term' = Restored(term)
                       /\ UNCHANGED <<st, report, sink, nsink>>
                  ELSE IF io \in {"clear_failed", "show_failed"}
                  THEN /\ pc' = "error" /\ err' = ErrorOf(io)
                       /\ term' = Restored(term)
                       /\ UNCHANGED <<st, report, sink, nsink>>
                  ELSE /\ st' = g.self
                       /\ term' = Restored(show_cursor(term))
                       /\ IF io = "report_failed"
                          THEN pc' = "error" /\ err' = ErrorOf(io)
                               /\ UNCHANGED <<report, sink, nsink>>
                          ELSE LET failed == \/ io = "clear2_failed"
                                             \/ (io = "sink_failed" /\ enough /\ to # "none")
                               IN  /\ report' = IF enough THEN "logged" ELSE "nohours"
                                   /\ sink' = IF enough /\ to # "none"
                                              THEN [to |-> to, hours |-> g.val]
                                              ELSE sink
                                   /\ nsink' = IF enough /\ to # "none"
                                               THEN nsink + 1 ELSE nsink
                                   /\ pc' = IF failed THEN "error" ELSE "done"
                                   /\ err' = IF failed THEN ErrorOf(io) ELSE err
    /\ UNCHANGED <<opts, start_line, chan, inpc, pending, pressed, dispatched,
                   nkeys, nticks, counter, screen, ndraws>>
    /\ UNCHANGED <<enq, dtimes, created>>
    /\ UNCHANGED <<now, nadv, ncalls, last, last2, phase, quitSt, obsActive, obsPR>>

\* Time passes during the session.
SessionTimePasses == ~Returned /\ Advance(MaxSessAdvances) /\ UNCHANGED sessVars /\ UNCHANGED extVars

SessionInit ==
    /\ InitApi
    /\ ExtIdle
    /\ pc = "main"
    /\ opts \in Arguments
    /\ term = [raw |-> FALSE, cursor |-> TRUE]
    /\ start_line = 0
    /\ chan = <<>>
    /\ inpc = "off"
    /\ pending = "None"
    /\ pressed = <<>>
    /\ dispatched = <<>>
    /\ nkeys = 0
    /\ nticks = 0
    /\ counter = 0
    /\ screen = NoScreen
    /\ ndraws = 0
    /\ report = "none"
    /\ sink = NoSink
    /\ enq = <<>>
    /\ dtimes = <<>>
    /\ created = 0
    /\ err = "none"
    /\ final = -1
    /\ nsink = 0

SessionNext ==
    \/ Main
    \/ Acquire
    \/ ReadKey
    \/ KeysEnd
    \/ SendResumes
    \/ RecvCommand
    \/ RecvNone
    \/ Tick
    \/ Summary
    \/ SessionTimePasses

SessionSpec == SessionInit /\ [][SessionNext]_vars

\* The session under a fair select: a command that stays ready is received, the
\* closing of the channel is noticed, a blocked send that can complete does,
\* and the code after the loop runs.
FairSessionSpec ==
    /\ SessionSpec
    /\ WF_vars(RecvCommand)
    /\ WF_vars(RecvNone)
    /\ WF_vars(SendResumes)
    /\ WF_vars(Summary)

\* ------------------------------------------------------------ the database
\* add_entry, remove_entry_by_id and import_hours over table `entry`.

MaxDbCalls == 4
Jobs == {"a", "b"}
Dates == {1}
HoursLogged == {1, 2}

\* The columns of the UNIQUE constraint of table `entry`.
EntryKeys == [job : Jobs, date : Dates, hours : HoursLogged]

KeyOf(r) == [job |-> r.job, date |-> r.date, hours |-> r.hours]

\* create_conn: a new connection has inserted nothing, its last_insert_rowid is 0.
create_conn == [open |-> TRUE, rowid |-> 0]

NoConn == [open |-> FALSE, rowid |-> 0]

NoMsg == [kind |-> "none", id |-> 0]

\* INSERT OR IGNORE INTO entry on a connection whose last_insert_rowid is
\* `rowid`: a row with the same (job, date, hours) makes the statement a no-op
\* that leaves last_insert_rowid as it was; otherwise the row gets the next id
\* of the AUTOINCREMENT sequence, which becomes last_insert_rowid.
InsertOrIgnore(d, rowid, key) ==
    IF \E r \in d.entries : KeyOf(r) = key
    THEN [entries |-> d.entries, sqlite_seq |-> d.sqlite_seq, rowid |-> rowid,
          inserted |-> "ignored"]
    ELSE [entries |-> d.entries \cup
                        {[id |-> d.sqlite_seq + 1, job |-> key.job,
                          date |-> key.date, hours |-> key.hours]},
          sqlite_seq |-> d.sqlite_seq + 1, rowid |-> d.sqlite_seq + 1,
          inserted |-> "inserted"]

\* What add_entry prints for the last_insert_rowid it reads after the INSERT.
Printed(rowid) ==
    IF rowid # 0 THEN [kind |-> "Added", id |-> rowid]
    ELSE [kind |-> "Duplicate", id |-> 0]

\* add_entry on the connection whose last_insert_rowid is `rowid`; the
\* statement can fail, and then nothing is printed.
add_entry(d, rowid, key, out) ==
    IF out = "failed"
    THEN [d EXCEPT !.msg = NoMsg, !.inserted = "failed", !.ndb = @ + 1]
    ELSE LET r == InsertOrIgnore(d, rowid, key)
         IN  [d EXCEPT !.entries = r.entries, !.sqlite_seq = r.sqlite_seq,
                       !.msg = Printed(r.rowid), !.inserted = r.inserted,
                       !.ndb = @ + 1]

\* add_entry(None, ..): the `add` command and the end of a session, each on a
\* connection of their own.
AddEntry ==
    /\ db.ndb < MaxDbCalls
    /\ \E key \in EntryKeys, out \in {"ok", "failed"} :
           db' = add_entry(db, create_conn.rowid, key, out)
    /\ UNCHANGED <<cnt, syn>>
    /\ UNCHANGED <<apiVars, sessVars>>

\* import_hours opens the connection all its lines share.
ImportOpen ==
    /\ db.ndb < MaxDbCalls
    /\ ~db.conn.open
    /\ db' = [db EXCEPT !.conn = create_conn]
    /\ UNCHANGED <<cnt, syn>>
    /\ UNCHANGED <<apiVars, sessVars>>

\* One line of the imported file: add_entry(Some(&mut conn), ..).  A failure
\* ends import_hours, and the connection is dropped.
ImportLine ==
    /\ db.ndb < MaxDbCalls
    /\ db.conn.open
    /\ \E key \in EntryKeys, out \in {"ok", "failed"} :
           LET d == add_entry(db, db.conn.rowid, key, out)
               r == InsertOrIgnore(db, db.conn.rowid, key)
           IN  db' = [d EXCEPT !.conn = IF out = "failed" THEN NoConn
                                         ELSE [open |-> TRUE, rowid |-> r.rowid]]
    /\ UNCHANGED <<cnt, syn>>
    /\ UNCHANGED <<apiVars, sessVars>>

\* The file has no more lines: import_hours returns.
ImportEnd ==
    /\ db.conn.open
    /\ db' = [db EXCEPT !.conn = NoConn]
    /\ UNCHANGED <<cnt, syn>>
    /\ UNCHANGED <<apiVars, sessVars>>

\* remove_entry_by_id: DELETE FROM entry WHERE id = @id, on its own connection.
RemoveEntry ==
    /\ db.ndb < MaxDbCalls
    /\ \E id \in 1..MaxDbCalls :
           db' = [db EXCEPT !.entries = {r \in @ : r.id # id}, !.ndb = @ + 1]
    /\ UNCHANGED <<cnt, syn>>
    /\ UNCHANGED <<apiVars, sessVars>>

\* The schema has been created and the table is empty.
DbInit ==
    /\ InitApi
    /\ NoSession
    /\ db = [pc |-> "ready", entries |-> {}, sqlite_seq |-> 0, conn |-> NoConn,
             msg |-> NoMsg, inserted |-> "none", ndb |-> 0]
    /\ cnt = NotRunning
    /\ syn = NotRunning

DbNext ==
    \/ AddEntry
    \/ ImportOpen
    \/ ImportLine
    \/ ImportEnd
    \/ RemoveEntry

DbSpec == DbInit /\ [][DbNext]_vars

\* ------------------------------------------------------------ the counter tasks
\* tokiotests: main spawns the counter tasks, which share an Arc<Mutex<i32>>.

\* `for i in 0..5` in main, and in the spawned task
NumTasks == 5
NumIncs == 5

\* (a lock that lets every caller in)
CanLock_always(h) == TRUE

\* Mutex::lock().await completes when no guard is alive.
CanLock(h) == h = 0

\* The holder of the Mutex when main has it.
MainTask == -1

\* clone_count_and_spawn: the task starts at its first lock().await.
NewTask == [pc |-> "lock", i |-> 0, val |-> 0]

\* main: `clone_count_and_spawn(&count, i).await` for the next i.
Spawn ==
    /\ cnt.pc = "spawning"
    /\ LET n == Len(cnt.tasks) + 1
       IN  cnt' = [cnt EXCEPT !.tasks = Append(@, NewTask),
                              !.pc = IF n = NumTasks THEN "waiting" ELSE "spawning"]
    /\ UNCHANGED <<db, syn>>
    /\ UNCHANGED <<apiVars, sessVars>>

\* A counter task: `count_clone.lock().await` returns the guard.
Lock ==
    /\ \E t \in DOMAIN cnt.tasks :
           /\ cnt.tasks[t].pc = "lock"
           /\ CanLock(cnt.holder)
           /\ cnt' = [cnt EXCEPT !.holder = t, !.tasks[t].pc = "held"]
    /\ UNCHANGED <<db, syn>>
    /\ UNCHANGED <<apiVars, sessVars>>

\* `*actual_value += 1`, the read
Load ==
    /\ \E t \in DOMAIN cnt.tasks :
           /\ cnt.tasks[t].pc = "held"
           /\ cnt' = [cnt EXCEPT !.tasks[t].val = cnt.count, !.tasks[t].pc = "loaded"]
    /\ UNCHANGED <<db, syn>>
    /\ UNCHANGED <<apiVars, sessVars>>

\* `*actual_value += 1`, the write; the value read is dead after it
Store ==
    /\ \E t \in DOMAIN cnt.tasks :
           /\ cnt.tasks[t].pc = "loaded"
           /\ cnt' = [cnt EXCEPT !.count = cnt.tasks[t].val + 1,
                                 !.performed = @ + 1,
                                 !.tasks[t].val = 0,
                                 !.tasks[t].pc = "stored"]
    /\ UNCHANGED <<db, syn>>
    /\ UNCHANGED <<apiVars, sessVars>>

\* The line is printed and the guard dropped at the end of the iteration; the
\* task ends after its last one.
Unlock ==
    /\ \E t \in DOMAIN cnt.tasks :
           /\ cnt.tasks[t].pc = "stored"
           /\ cnt' = [cnt EXCEPT !.holder = 0,
                                 !.tasks[t].i = @ + 1,
                                 !.tasks[t].pc = IF cnt.tasks[t].i + 1 = NumIncs
                                                 THEN "done" ELSE "lock"]
    /\ UNCHANGED <<db, syn>>
    /\ UNCHANGED <<apiVars, sessVars>>

\* main, after the four handles: `count.lock().await` for the total.
MainLock ==
    /\ cnt.pc = "waiting"
    /\ CanLock(cnt.holder)
    /\ cnt' = [cnt EXCEPT !.holder = MainTask, !.pc = "printing"]
    /\ UNCHANGED <<db, syn>>
    /\ UNCHANGED <<apiVars, sessVars>>

\* main prints the total, drops the guard and returns.  The counter tasks are
\* not awaited: one that has not finished may still run, or never run again.
MainPrint ==
    /\ cnt.pc = "printing"
    /\ cnt' = [cnt EXCEPT !.holder = 0, !.pc = "returned"]
    /\ UNCHANGED <<db, syn>>
    /\ UNCHANGED <<apiVars, sessVars>>

\* `Arc::new(Mutex::new(0))`, no task spawned yet.
CntInit ==
    /\ InitApi
    /\ NoSession
    /\ db = NotRunning
    /\ cnt = [pc |-> "spawning", count |-> 0, holder |-> 0, tasks |-> <<>>,
              performed |-> 0]
    /\ syn = NotRunning

CntNext ==
    \/ Spawn
    \/ Lock
    \/ Load
    \/ Store
    \/ Unlock
    \/ MainLock
    \/ MainPrint

CntSpec == CntInit /\ [][CntNext]_vars

\* ------------------------------------------------------------ the drive syncer
\* syncdrives: mount each destination and sync it with the local directories,
\* then sync the destinations' synced/ directories with each other.  A path
\* is the sequence of its components.

\* --drive-letter: absent, or the text given
NoLetter == [some |-> FALSE, val |-> <<>>]
Letters == {NoLetter, [some |-> TRUE, val |-> <<"e">>],
            [some |-> TRUE, val |-> <<"g", "My Drive">>]}

\* Cli, for one user
Clis == [user : {"u"}, drive_letter : Letters, dry_run : BOOLEAN]

\* `vec!["bin", "docs", "scripts", "synced"]`
subdirs == <<"bin", "docs", "scripts", "synced">>

\* `sync_all` is set when a drive letter was given.
sync_all(c) == c.drive_letter.some

dest_gdrv ==
    [desc |-> "Google Drive", mp |-> <<"mnt", "g">>,
     dir |-> <<"mnt", "g", "My Drive">>, err |-> "none"]

\* format!("/mnt/{}", letter) for the mountpoint and the directory
dest_extl(letter) ==
    [desc |-> "Redkid", mp |-> <<"mnt">> \o letter, dir |-> <<"mnt">> \o letter,
     err |-> "none"]

\* dest_dirs as main builds it
Destinations(c) ==
    IF sync_all(c) THEN <<dest_gdrv, dest_extl(c.drive_letter.val)>>
    ELSE <<dest_gdrv>>

\* format!("{}/wsl/{}/synced/", dir, user)
SyncDir(d, user) == d.dir \o <<"wsl", user, "synced">>

\* (every destination taken to be free of errors)
NoErr_any(d) == TRUE

\* `.get("err").is_none()`
NoErr(d) == d.err = "none"

\* mount_drive for a mountpoint that is_mountpoint_empty reports as `empty`
\* and a mount command that succeeds or not: the mount is only tried on an
\* empty mountpoint.
mount_drive(empty, mount_ok) ==
    IF empty /\ ~mount_ok THEN "Err" ELSE "Ok"

\* The first loop goes on to the next destination, or has ended.
AfterFirstLoop(s) ==
    IF sync_all(s.cli) THEN [s EXCEPT !.pc = "cross", !.i = 1, !.j = 1]
    ELSE [s EXCEPT !.pc = "done"]

NextDest(s) ==
    IF s.i < Len(s.dest_dirs) THEN [s EXCEPT !.pc = "mount", !.i = @ + 1, !.sub = 1]
    ELSE AfterFirstLoop(s)

\* The first loop, mount_drive(&dest): on an error the destination is marked
\* and the loop continues with the next one.
MountDrive ==
    /\ syn.pc = "mount"
    /\ \E empty \in BOOLEAN, mount_ok \in BOOLEAN :
           LET res == mount_drive(empty, mount_ok)
               s == [syn EXCEPT !.mounts[syn.i] = res]
           IN  syn' = IF res = "Err"
                      THEN NextDest([s EXCEPT !.dest_dirs[syn.i].err = "mount-err"])
                      ELSE [s EXCEPT !.pc = "local", !.sub = 1]
    /\ UNCHANGED <<db, cnt>>
    /\ UNCHANGED <<apiVars, sessVars>>

\* The first loop, sync_dirs_with_local: one subdirectory.  The first rsync
\* that fails ends sync_dirs_with_local; the destination is marked and the
\* loop is left.
SyncLocal ==
    /\ syn.pc = "local"
    /\ \E ok \in BOOLEAN :
           LET s == [syn EXCEPT !.locals = @ \cup
                                    {[dest |-> syn.i, sub |-> syn.sub, ok |-> ok]}]
           IN  syn' = IF ~ok
                      THEN AfterFirstLoop([s EXCEPT !.dest_dirs[syn.i].err = "sync-err"])
                      ELSE IF syn.sub < Len(subdirs)
                      THEN [s EXCEPT !.sub = @ + 1]
                      ELSE NextDest(s)
    /\ UNCHANGED <<db, cnt>>
    /\ UNCHANGED <<apiVars, sessVars>>

\* The second loop has handled (i, j).
NextPair(s) ==
    IF s.j < Len(s.dest_dirs) THEN [s EXCEPT !.j = @ + 1]
    ELSE IF s.i < Len(s.dest_dirs) THEN [s EXCEPT !.i = @ + 1, !.j = 1]
    ELSE [s EXCEPT !.pc = "done"]

\* The second loop has no more to do for source i.
NextSource(s) ==
    IF s.i < Len(s.dest_dirs) THEN [s EXCEPT !.i = @ + 1, !.j = 1]
    ELSE [s EXCEPT !.pc = "done"]

\* The second loop for source i and destination j: sync_between when neither
\* has an error and their synced/ directories differ; its error is only
\* printed.
CrossSync ==
    /\ syn.pc = "cross"
    /\ LET src == syn.dest_dirs[syn.i]
           dest == syn.dest_dirs[syn.j]
       IN  IF ~NoErr(src)
           THEN syn' = NextSource(syn)
           ELSE IF NoErr(dest) /\ SyncDir(dest, syn.cli.user) # SyncDir(src, syn.cli.user)
           THEN \E ok \in BOOLEAN :
                    syn' = NextPair([syn EXCEPT !.crosses = @ \cup
                                {[src |-> syn.i, dest |-> syn.j, ok |-> ok]}])
           ELSE syn' = NextPair(syn)
    /\ UNCHANGED <<db, cnt>>
    /\ UNCHANGED <<apiVars, sessVars>>

\* main up to the first loop, for every command line.
SynInit ==
    /\ InitApi
    /\ NoSession
    /\ db = NotRunning
    /\ cnt = NotRunning
    /\ \E c \in Clis :
           syn = [pc |-> "mount", cli |-> c, dest_dirs |-> Destinations(c),
                  i |-> 1, j |-> 1, sub |-> 1,
                  mounts |-> [d \in DOMAIN Destinations(c) |-> "none"],
                  locals |-> {}, crosses |-> {}]

SynNext ==
    \/ MountDrive
    \/ SyncLocal
    \/ CrossSync

SynSpec == SynInit /\ [][SynNext]_vars

\* ------------------------------------------------------------ properties

\* The total elapsed reported for LogState s at time t, in clock units.
TotalHours(s, t) == get_total_hours(s, t).val

\* Elapsed since the anchor of s at time t: in clock units, and in whole minutes.
SinceAnchor(s, t) == t - s.start_time
SinceAnchorMin(s, t) == ((t - s.start_time) \div UnitsPerSec) \div SecsPerMin

\* The fields a no-op leaves alone, anchor aside.
SameBank(s1, s2) ==
    /\ s1.hours = s2.hours
    /\ s1.minutes = s2.minutes
    /\ s1.paused = s2.paused
    /\ s1.running = s2.running

\* C1: pause() called twice in a row from Active, with any time between the two
\* calls, banks the elapsed-since-anchor duration of the first call once; the
\* second call leaves hours, minutes, paused and running as they were.
C1_PauseTwiceBanksOnce ==
    (last.op = "pause" /\ last2.op = "pause" /\ Active(last2.pre)) =>
        /\ st.hours = last2.pre.hours + SinceAnchor(last2.pre, last2.at)
        /\ st.minutes = last2.pre.minutes + SinceAnchorMin(last2.pre, last2.at)
        /\ SameBank(st, last.pre)

C1_Witness ==
    /\ last.op = "pause" /\ last2.op = "pause" /\ Active(last2.pre)
    /\ last2.at > last2.pre.start_time
    /\ last.at > last2.at

\* C2: quit() banks at most one interval: called from Active it adds the
\* elapsed-since-anchor duration, called when paused it adds nothing, and a
\* quit() called after an earlier quit() adds nothing.
C2_QuitBanksAtMostOnce ==
    last.op = "quit" =>
        /\ (Active(last.pre) /\ last.phase = "Started") =>
              /\ st.hours = last.pre.hours + SinceAnchor(last.pre, last.at)
              /\ st.minutes = last.pre.minutes + SinceAnchorMin(last.pre, last.at)
        /\ last.pre.paused =>
              (st.hours = last.pre.hours /\ st.minutes = last.pre.minutes)
        /\ last.phase = "Stopped" =>
              (st.hours = last.pre.hours /\ st.minutes = last.pre.minutes)

\* C3: after start() has left Idle and only pause()/resume() were called since,
\* the total elapsed reported equals the time spent Active.
C3_TotalIsActiveTime ==
    (obsPR /\ phase = "Started") => TotalHours(st, now) = obsActive

\* C4: start() from Idle sets running and sets the anchor to the time of the
\* call, so that a pause() following it reports the time since start().
C4_StartSetsAnchor ==
    /\ (last.op = "start" /\ last.phase = "Idle") =>
          (st.running /\ st.start_time = last.at)
    /\ (last.op = "pause" /\ last2.op = "start" /\ last2.phase = "Idle") =>
          TotalHours(st, now) = last.at - last2.at

\* C5: the total-elapsed getters change no field of the LogState, return the
\* banked value when paused or not running and banked + (now - anchor) when
\* Active, and return the same value when called again at the same instant.
C5_TotalIsPureRead ==
    /\ last.op \in Getters => st = last.pre
    /\ last.op = "get_total_hours" =>
          last.ret = IF Active(last.pre)
                     THEN last.pre.hours + SinceAnchor(last.pre, last.at)
                     ELSE last.pre.hours
    /\ last.op = "get_total_minutes" =>
          last.ret = IF Active(last.pre)
                     THEN last.pre.minutes + SinceAnchorMin(last.pre, last.at)
                     ELSE last.pre.minutes
    /\ (last.op \in Getters /\ last2.op = last.op /\ last2.at = last.at) =>
          last.ret = last2.ret

C5_Witness ==
    /\ last.op = "get_total_hours" /\ last2.op = "get_total_hours"
    /\ last2.at = last.at
    /\ Active(last.pre) /\ last.at > last.pre.start_time

\* C6: a tick of the session loop leaves the LogState as it was and draws the
\* status line only when the LogState is running; the LogState made when the
\* session is set up changes only in a step that dispatches a command.
C6_TickLeavesAccumulator ==
    [][/\ nticks' # nticks =>
            (st' = st /\ (ndraws' # ndraws => is_running(st)))
       /\ st' # st => (dispatched' # dispatched \/ pc = "entry")]_vars

C6_Witness ==
    /\ nticks > 0 /\ ndraws > 0
    /\ screen.kind = "running"
    /\ Active(st)
    /\ now > st.start_time

\* C7: once quit() has been called, running stays false and the banked total
\* and the total elapsed reported stay what they were right after that quit().
C7_StoppedIsTerminal ==
    phase = "Stopped" =>
        /\ ~st.running
        /\ st.hours = quitSt.hours /\ st.minutes = quitSt.minutes
        /\ TotalHours(st, now) = TotalHours(quitSt, now)

\* C8: a call outside its valid source state changes nothing: pause() when Idle
\* or Paused, resume() when Idle or Active, toggle_pause() when Idle, start()
\* when running; toggle_pause() when Idle leaves the total elapsed at 0.
C8_NoOpOutsideSourceState ==
    /\ (last.op = "pause" /\ (last.phase = "Idle" \/ Paused(last.pre))) => st = last.pre
    /\ (last.op = "resume" /\ (last.phase = "Idle" \/ Active(last.pre))) => st = last.pre
    /\ (last.op = "toggle_pause" /\ last.phase = "Idle") =>
          (st = last.pre /\ TotalHours(st, now) = 0)
    /\ (last.op = "start" /\ last.pre.running) => st = last.pre

C8_Witness ==
    /\ last.op = "resume" /\ Active(last.pre)
    /\ last.at > last.pre.start_time

\* C9: while running, toggle_pause() leaves the LogState that pause() leaves
\* when Active and that resume() leaves when Paused.
C9_ToggleIsPauseOrResume ==
    (last.op = "toggle_pause" /\ last.pre.running) =>
        st = IF last.pre.paused THEN resume(last.pre, last.at)
                                ELSE pause(last.pre, last.at)

C9_Witness ==
    /\ last.op = "toggle_pause" /\ Paused(last.pre)
    /\ last.at > last.pre.start_time

\* C10: no step lowers the banked hours or the banked minutes.
C10_AccumulatedMonotone ==
    [][st'.hours >= st.hours /\ st'.minutes >= st.minutes]_vars

C10_Witness ==
    /\ st.hours > last.pre.hours
    /\ st.minutes > last.pre.minutes
    /\ last.pre.hours > 0

\* C11: after the session loop has exited, the final total elapsed is handed to
\* the persistence sink if and only if it is at least 0.01 hours; a session that
\* completes with less reports "No hours logged" and calls no sink.  (An exit
\* on a failed terminal write is not held against the statement.)
C11_SinkIffThreshold ==
    (opts.cmd = "log" /\ pc \in {"done", "panic"}) =>
        /\ (sink.to # "none") <=> ReachesThreshold(final)
        /\ (pc = "done" /\ ~ReachesThreshold(final)) =>
              (report = "nohours" /\ sink = NoSink)

\* C12: Start dispatched, Quit dispatched half a second later, whatever the
\* time between the launch of the session and the Start key: the session
\* reports "No hours logged" and nothing is handed to the sink.
C12_HalfSecondSessionLogsNothing ==
    (/\ pc = "done"
     /\ dispatched = <<"Start", "Quit">>
     /\ 2 * (dtimes[2] - dtimes[1]) = UnitsPerSec) =>
        (report = "nohours" /\ sink = NoSink)

\* Quit is among the commands of seq.
HasQuit(seq) == \E i \in 1..Len(seq) : seq[i] = "Quit"

\* C13: the step that dispatches Quit calls quit() on the LogState and leaves
\* the loop; from then on no command is dispatched, no tick is served and the
\* LogState stays as quit() left it.
C13_QuitLeavesLoop ==
    [][/\ (dispatched' # dispatched /\ HasQuit(dispatched')) =>
            /\ last'.op = "quit"
            /\ st' = quit(st, now)
            /\ pc' # "loop"
       /\ HasQuit(dispatched) =>
            /\ dispatched' = dispatched
            /\ nticks' = nticks
            /\ st' = st
            /\ pc' # "loop"]_vars

C13_Witness ==
    /\ pc = "done"
    /\ HasQuit(dispatched)
    /\ Len(dispatched) > 1
    /\ last.op = "quit"
    /\ now > last.at
    /\ nticks < MaxTicks

\* C14: the key handler stops once it has enqueued Quit, and stops at a send
\* that fails because the receiver is gone; no command is enqueued after a
\* Quit, and none once the receiver is gone.
C14_InputStopsAfterQuit ==
    [][/\ (enq' # enq /\ HasQuit(enq')) => inpc' = "ended"
       /\ HasQuit(enq) => (inpc = "ended" /\ inpc' = "ended" /\ enq' = enq)
       /\ ~RxAlive =>
            /\ enq' = enq
            /\ (pressed' # pressed \/ pending' # pending) => inpc' = "ended"]_vars

C14_Witness ==
    /\ HasQuit(enq)
    /\ inpc = "ended"
    /\ nkeys < MaxKeys
    /\ pc = "loop"
    /\ chan # <<>>

\* Sequence a is an initial part of sequence b.
IsPrefix(a, b) == Len(a) <= Len(b) /\ SubSeq(b, 1, Len(a)) = a

Held == IF inpc = "blocked" THEN <<pending>> ELSE <<>>

\* C16: the channel never holds more commands than its capacity, and while the
\* receiver lives no recognized command is lost: every one is dispatched, on
\* the channel, or held by the key handler blocked in its send until the
\* channel has room.
C16_BoundedQueueLosesNothing ==
    /\ Len(chan) <= ChanCap
    /\ inpc = "blocked" => pending # "None"
    /\ RxAlive =>
          /\ enq = dispatched \o chan
          /\ pressed = enq \o Held

C16_Witness ==
    /\ inpc = "blocked"
    /\ Len(chan) = ChanCap
    /\ pc = "loop"
    /\ pending # chan[1]

C18_AcquisitionFailureIsFatal ==
    err \in {"raw_failed", "cursor_failed"} =>
        /\ pc = "error"
        /\ inpc = "off"
        /\ nkeys = 0 /\ pressed = <<>> /\ enq = <<>>
        /\ dispatched = <<>>
        /\ last.op = "none"
        /\ report = "none"
        /\ sink = NoSink

C18_Witness ==
    /\ err = "cursor_failed"
    /\ pc = "error"
    /\ inpc = "off"
    /\ now > 0
    /\ ~term.raw /\ term.cursor

\* A tick whose redraw fails, which ends the session with that error.
TickFails == Tick /\ pc' = "error"

RECURSIVE Replay(_, _, _)
Replay(s, cmds, times) ==
    IF cmds = <<>>
    THEN s
    ELSE Replay(Apply(CommandMethod(Head(cmds)), s, Head(times)),
                Tail(cmds), Tail(times))

\* C20: the LogState is at every point the one that the commands dispatched
\* so far, at the instants of their dispatch, produce from the LogState the
\* session made, however many ticks were served and wherever they fell; the
\* total read after a Quit, and the hours handed to the sink, follow from it.
C20_TicksDoNotMatter ==
    /\ st = Replay(new(created), dispatched, dtimes)
    /\ (final # -1 /\ HasQuit(dispatched)) =>
          final = Replay(new(created), dispatched, dtimes).hours
    /\ (sink.to # "none" /\ opts.cmd = "log") => sink.hours = final

C20_Witness ==
    /\ dispatched = <<"Start", "Pause">>
    /\ dtimes[2] > dtimes[1]
    /\ nticks > 0
    /\ screen.kind = "running"
    /\ st.hours > 0

\* The command the claim gives for key k, "None" for a key to be ignored.
ClaimedCommand(k) ==
    CASE k = "s" -> "Start"
      [] k = "p" -> "Pause"
      [] k = "r" -> "Resume"
      [] k = " " -> "TogglePause"
      [] k = "q" -> "Quit"
      [] k = "^C" -> "Quit"
      [] OTHER -> "None"

\* C21: a turn of the key loop for s, p, r, space, q or Ctrl-C takes the key
\* for Start, Pause, Resume, TogglePause, Quit, Quit, and enqueues that command
\* when the channel has room and the receiver lives; a turn for any other key
\* enqueues nothing, leaves the key handler reading, and leaves the channel,
\* the commands dispatched and the LogState as they were.
C21_KeyMapping ==
    [][\A k \in Keys :
          ReadKeyOf(k) =>
              IF ClaimedCommand(k) = "None"
              THEN /\ pressed' = pressed /\ enq' = enq /\ chan' = chan
                   /\ inpc' = "reading"
                   /\ dispatched' = dispatched /\ st' = st
              ELSE /\ pressed' = Append(pressed, ClaimedCommand(k))
                   /\ (RxAlive /\ Len(chan) < ChanCap) =>
                         (/\ enq' = Append(enq, ClaimedCommand(k))
                          /\ chan' = Append(chan, ClaimedCommand(k)))
                   /\ dispatched' = dispatched /\ st' = st]_vars

C21_Witness ==
    /\ nkeys = 2
    /\ pressed = <<"TogglePause">>
    /\ dispatched = pressed
    /\ inpc = "reading"
    /\ pc = "loop"

\* Nothing has been started or written: main is still to run or has failed, no
\* key handler, no raw mode, no LogState call, no sink called.
NothingStarted ==
    /\ pc \in {"main", "error"}
    /\ inpc = "off"
    /\ ~term.raw
    /\ last.op = "none"
    /\ sink = NoSink /\ nsink = 0

C23_MinutesAreWholeMinutesOfTotal ==
    (phase = "Started" /\ Active(st)) =>
        get_total_minutes(st, now).val =
            (TotalHours(st, now) \div UnitsPerSec) \div SecsPerMin

\* C24: when the total has been read and reported in a session whose loop
\* ended without a Quit, the key handler had ended, every command of a
\* recognized key had been enqueued and dispatched, quit() was never called,
\* and the total read is the banked hours plus, when the LogState is Active,
\* the interval in progress since the anchor.
C24_KeySourceEndKeepsActiveTime ==
    (opts.cmd = "log" /\ report # "none" /\ ~HasQuit(dispatched)) =>
        /\ inpc = "ended"
        /\ chan = <<>>
        /\ dispatched = pressed /\ dispatched = enq
        /\ phase # "Stopped"
        /\ final = IF Active(st) THEN st.hours + (now - st.start_time)
                                 ELSE st.hours

C24_Witness ==
    /\ report = "logged"
    /\ ~HasQuit(dispatched)
    /\ Len(dispatched) = 2
    /\ Active(st)
    /\ now > dtimes[2]
    /\ final > st.hours
    /\ sink.hours = final

C26_ExactlyOneSink ==
    opts.cmd = "log" =>
        /\ nsink <= 1
        /\ nsink > 0 => (Returned /\ final # -1)
        /\ (pc \in {"done", "panic"} /\ ReachesThreshold(final)) =>
              /\ nsink = 1
              /\ sink = [to |-> IF opts.file THEN "file" ELSE "db", hours |-> final]
        /\ pc \in {"entry", "loop", "summary", "done", "panic"} =>
              (opts.file \/ opts.job)

\* ------------------------------------------------------------------ C27
\* The largest value of the u16 the line numbers are kept in.
U16Max == 65535

\* The line log_hours clears on leaving the loop, and the line it clears under
\* the status line on a tick, as integers before any wrapping.
ExitLine(sl) == sl - 1
TickLine(sl) == sl + 1

\* C27: for every cursor row the terminal reports (1-based), the line numbers
\* the session computes stay within the 16-bit unsigned range: start_line
\* itself, start_line + 1 while the loop ticks, and start_line - 1 when the
\* code after the loop is about to clear the line above the status line.
C27_LineNumbersInRange ==
    /\ pc \in {"loop", "summary"} =>
          /\ start_line \in 0..U16Max
          /\ TickLine(start_line) \in 0..U16Max
    /\ pc = "summary" => ExitLine(start_line) \in 0..U16Max

\* ------------------------------------------------------------------ C28
\* C28: what the last add_entry printed matches what its INSERT did, on a
\* connection of its own or on the connection an import shares: "Duplicate
\* entry" exactly when the INSERT was ignored, "Added entry #id" exactly when
\* it inserted a row, the row with that id.
C28_MessageMatchesInsert ==
    /\ (db.msg.kind = "Duplicate") <=> (db.inserted = "ignored")
    /\ (db.msg.kind = "Added") <=> (db.inserted = "inserted")
    /\ (db.msg.kind = "Added") => db.msg.id = db.sqlite_seq

\* ------------------------------------------------------------------ C29
\* The increments a counter task has written: one for each iteration it has
\* completed, and one more while it holds the guard after its write.
Written(tk) == tk.i + (IF tk.pc = "stored" THEN 1 ELSE 0)

RECURSIVE SumWritten(_, _)
SumWritten(ts, n) == IF n = 0 THEN 0 ELSE Written(ts[n]) + SumWritten(ts, n - 1)

AllFinished ==
    /\ Len(cnt.tasks) = NumTasks
    /\ \A t \in DOMAIN cnt.tasks : cnt.tasks[t].pc = "done"

\* C29: under every interleaving of the counter tasks the counter equals the
\* number of increments written so far, which is the sum of what each task has
\* written; once all NumTasks tasks have finished it is NumTasks * NumIncs.
C29_NoIncrementLost ==
    /\ cnt.count = cnt.performed
    /\ cnt.count = SumWritten(cnt.tasks, Len(cnt.tasks))
    /\ AllFinished => cnt.count = NumTasks * NumIncs

\* All five tasks have finished, main has printed and returned, and the
\* counter is 25.
C29_Witness ==
    /\ AllFinished
    /\ cnt.pc = "returned"
    /\ cnt.performed = 25
    /\ cnt.count = 25

\* ------------------------------------------------------------------ C30
\* Destination d was synced with every local subdirectory, each rsync
\* succeeding.
LocallySynced(d) ==
    /\ \A k \in DOMAIN subdirs : [dest |-> d, sub |-> k, ok |-> TRUE] \in syn.locals
    /\ \A l \in syn.locals : l.dest = d => l.ok

\* C30: no sync with a local directory is run for a destination whose
\* mount_drive failed, and every sync between destinations has as source and
\* destination two different destinations for which mount_drive succeeded and
\* all the syncs with the local directories succeeded.
C30_OnlyHealthyDestinationsSynced ==
    /\ \A l \in syn.locals : syn.mounts[l.dest] = "Ok"
    /\ \A c \in syn.crosses :
           /\ c.src # c.dest
           /\ \A d \in {c.src, c.dest} :
                  /\ syn.mounts[d] = "Ok"
                  /\ LocallySynced(d)

\* Both destinations were mounted and synced and have been synced with each
\* other in both directions, the second of these syncs failing.
C30_Witness ==
    /\ syn.pc = "done"
    /\ ~syn.cli.dry_run
    /\ [src |-> 1, dest |-> 2, ok |-> TRUE] \in syn.crosses
    /\ [src |-> 2, dest |-> 1, ok |-> FALSE] \in syn.crosses
    /\ LocallySynced(1) /\ LocallySynced(2)

====
